---- MODULE Spec2Model ----
(***************************************************************************)
(* Model of sb_editor (jasonxtt/sb_editor): the tag-aware path resolver,   *)
(* the save/read handlers, the key enumerator, the functional classifier   *)
(* and the lock discipline around currentConfigPath.                       *)
(*                                                                         *)
(* Text is modelled as a sequence of tokens.  A token is one character of  *)
(* JSON punctuation ("{", "}", "[", "]", ":", ",", the double quote, "."), *)
(* one decimal digit, one blank, or one indivisible word ("outbounds",     *)
(* "tag", "A", "true", ...).  Every string operation of the code           *)
(* (SplitN, Sprintf, TrimSuffix, comparison, validation, escaping) is      *)
(* computed on these sequences.                                            *)
(***************************************************************************)
EXTENDS Integers, Sequences, FiniteSets, TLC

VARIABLES
    doc,        \* the bytes of the file under edit: [v: JSON value, tail: text after it]
    prev,       \* history: the bytes of the file before the last request
    resp,       \* the response of the last request served on the document
    dir,        \* the active configuration directory: file name -> content
    cresp,      \* the response of the last get_functional_configs request
    fs,         \* the file system of the host: [systemd: detected path, dirs: readable directories]
    currentConfigPath,        \* part_000:14
    currentConfigPathMutex,   \* part_000:15, [readers: set of threads, writer: set of threads]
    pc,         \* per thread: position in its handler
    local       \* per thread: the handler's local copy (newPath, initialActivePath, baseDir)

vars == <<doc, prev, resp, dir, cresp, fs, currentConfigPath, currentConfigPathMutex, pc, local>>

docVars == <<doc, prev, resp>>
dirVars == <<dir, cresp>>
lockVars == <<fs, currentConfigPath, currentConfigPathMutex, pc, local>>

----------------------------------------------------------------------------
(* Text helpers *)

Digits == {"0", "1", "2", "3", "4", "5", "6", "7", "8", "9"}

DigitVal(c) ==
    CASE c = "0" -> 0 [] c = "1" -> 1 [] c = "2" -> 2 [] c = "3" -> 3 [] c = "4" -> 4
      [] c = "5" -> 5 [] c = "6" -> 6 [] c = "7" -> 7 [] c = "8" -> 8 [] c = "9" -> 9

DigitTok(n) ==
    CASE n = 0 -> "0" [] n = 1 -> "1" [] n = 2 -> "2" [] n = 3 -> "3" [] n = 4 -> "4"
      [] n = 5 -> "5" [] n = 6 -> "6" [] n = 7 -> "7" [] n = 8 -> "8" [] n = 9 -> "9"

IsDigits(s) == \A i \in 1..Len(s) : s[i] \in Digits

\* strconv-style decimal value of a digit text (the empty text gives 0)
RECURSIVE TextNat(_)
TextNat(s) ==
    IF s = <<>> THEN 0
    ELSE 10 * TextNat(SubSeq(s, 1, Len(s) - 1)) + DigitVal(s[Len(s)])

\* fmt.Sprintf("%d", n) for n >= 0
RECURSIVE NatText(_)
NatText(n) ==
    IF n < 10 THEN <<DigitTok(n)>>
    ELSE NatText(n \div 10) \o <<DigitTok(n % 10)>>

\* index of the first occurrence of token c in s at or after i, 0 when there is none
RECURSIVE IndexFrom(_, _, _)
IndexFrom(s, c, i) ==
    IF i > Len(s) THEN 0
    ELSE IF s[i] = c THEN i
    ELSE IndexFrom(s, c, i + 1)

\* strings.SplitN(s, ".", 2)
SplitN2(s) ==
    LET i == IndexFrom(s, ".", 1)
    IN  IF i = 0 THEN <<s>>
        ELSE <<SubSeq(s, 1, i - 1), SubSeq(s, i + 1, Len(s))>>

\* strings.Split(s, "."): every dot separates
RECURSIVE SplitAll(_)
SplitAll(s) ==
    LET i == IndexFrom(s, ".", 1)
    IN  IF i = 0 THEN <<s>>
        ELSE <<SubSeq(s, 1, i - 1)>> \o SplitAll(SubSeq(s, i + 1, Len(s)))

----------------------------------------------------------------------------
(* JSON values as gjson sees them.  t is the gjson type; s is the text of  *)
(* a string (unescaped) or the raw digits of a number; kids are the        *)
(* members of an object (k = key text) or the items of an array (k empty). *)

JNone  == [t |-> "none",  s |-> <<>>, kids |-> <<>>]
JNull  == [t |-> "null",  s |-> <<>>, kids |-> <<>>]
JTrue  == [t |-> "true",  s |-> <<>>, kids |-> <<>>]
JFalse == [t |-> "false", s |-> <<>>, kids |-> <<>>]
JNum(s) == [t |-> "num", s |-> s, kids |-> <<>>]
JStr(s) == [t |-> "str", s |-> s, kids |-> <<>>]
JObj(members) == [t |-> "obj", s |-> <<>>, kids |-> members]
JArr(items) == [t |-> "arr", s |-> <<>>, kids |-> items]
Member(k, v) == [k |-> k, v |-> v]
Item(v) == [k |-> <<>>, v |-> v]

\* gjson Result.Exists / IsArray / IsObject
Exists(r) == r.t # "none"
IsArray(r) == r.t = "arr"
IsObject(r) == r.t = "obj"

\* the raw bytes of a value (compact form); a quote inside a string is escaped
EscapeTok(c) == IF c = "\"" THEN "\\\"" ELSE c
EscapeText(s) == [i \in 1..Len(s) |-> EscapeTok(s[i])]

RECURSIVE Raw(_)
RECURSIVE RawKids(_, _, _)
RawKids(kids, isObj, i) ==
    IF i > Len(kids) THEN <<>>
    ELSE (IF i > 1 THEN <<",">> ELSE <<>>)
         \o (IF isObj THEN <<"\"">> \o EscapeText(kids[i].k) \o <<"\"", ":">> ELSE <<>>)
         \o Raw(kids[i].v)
         \o RawKids(kids, isObj, i + 1)
Raw(v) ==
    CASE v.t = "none"  -> <<>>
      [] v.t = "null"  -> <<"null">>
      [] v.t = "true"  -> <<"true">>
      [] v.t = "false" -> <<"false">>
      [] v.t = "num"   -> v.s
      [] v.t = "str"   -> <<"\"">> \o EscapeText(v.s) \o <<"\"">>
      [] v.t = "obj"   -> <<"{">> \o RawKids(v.kids, TRUE, 1) \o <<"}">>
      [] v.t = "arr"   -> <<"[">> \o RawKids(v.kids, FALSE, 1) \o <<"]">>

\* gjson Result.String(): the text of a string, the raw bytes of a number,
\* an object or an array, "true"/"false", and "" for null and for a missing value
\* a String() that prints null as the word
MutResultString(r) ==
    CASE r.t = "str"   -> r.s
      [] r.t = "num"   -> r.s
      [] r.t = "true"  -> <<"true">>
      [] r.t = "false" -> <<"false">>
      [] r.t = "null"  -> <<"null">>
      [] r.t = "obj"   -> Raw(r)
      [] r.t = "arr"   -> Raw(r)
      [] OTHER         -> <<>>

ResultString(r) ==
    CASE r.t = "str"   -> r.s
      [] r.t = "num"   -> r.s
      [] r.t = "true"  -> <<"true">>
      [] r.t = "false" -> <<"false">>
      [] r.t = "obj"   -> Raw(r)
      [] r.t = "arr"   -> Raw(r)
      [] OTHER         -> <<>>

\* first position in kids whose key is k, 0 when there is none
RECURSIVE KeyIndex(_, _, _)
KeyIndex(kids, k, i) ==
    IF i > Len(kids) THEN 0
    ELSE IF kids[i].k = k THEN i
    ELSE KeyIndex(kids, k, i + 1)

\* gjson: one path component applied to a value.  An object is searched for the
\* first member with that key; an array takes a non-empty all-digit component as
\* an index; anything else does not exist.
GetKey(v, k) ==
    CASE v.t = "obj" ->
            LET i == KeyIndex(v.kids, k, 1)
            IN  IF i = 0 THEN JNone ELSE v.kids[i].v
      [] v.t = "arr" ->
            IF k # <<>> /\ IsDigits(k) /\ TextNat(k) < Len(v.kids)
            THEN v.kids[TextNat(k) + 1].v
            ELSE JNone
      [] OTHER -> JNone

\* gjson.GetBytes(content, path): the components of path applied in turn
RECURSIVE GetParts(_, _)
GetParts(v, parts) ==
    IF parts = <<>> THEN v
    ELSE GetParts(GetKey(v, Head(parts)), Tail(parts))

GjsonGet(v, path) == GetParts(v, SplitAll(path))

----------------------------------------------------------------------------
(* resolvePath, api.go:37-80 *)

\* the ForEach loop of resolvePath: index (from 0) of the first item whose
\* value.Get("tag").String() equals tagOrKey, -1 when the loop ends without one
RECURSIVE ScanFirstTag(_, _, _)
ScanFirstTag(items, tagOrKey, i) ==
    IF i > Len(items) THEN -1
    ELSE IF ResultString(GetKey(items[i].v, <<"tag">>)) = tagOrKey THEN i - 1
    ELSE ScanFirstTag(items, tagOrKey, i + 1)

TagIndex(items, tagOrKey) == ScanFirstTag(items, tagOrKey, 1)

IsTagRoot(rootKey) == rootKey = <<"outbounds">> \/ rootKey = <<"inbounds">>

resolvePath(content, userPath) ==
    IF userPath = <<>> THEN <<>>
    ELSE LET parts == SplitN2(userPath)
         IN  IF Len(parts) # 2 THEN userPath
             ELSE LET rootKey == parts[1]
                      tagOrKey == parts[2]
                      list == GjsonGet(content, rootKey)
                      realIndex == TagIndex(list.kids, tagOrKey)
                  IN  IF IsTagRoot(rootKey) /\ IsArray(list) /\ realIndex # -1
                      THEN rootKey \o <<".">> \o NatText(realIndex)
                      ELSE userPath

----------------------------------------------------------------------------
(* Responses *)

NoResp ==
    [op |-> "none", status |-> 0, userPath |-> <<>>, realPath |-> <<>>,
     value |-> <<>>, body |-> <<>>, ctx |-> <<>>, keys |-> <<>>]

ErrResp(op, status) == [NoResp EXCEPT !.op = op, !.status = status]

\* what makes a handler return before it reaches the document: the request
\* method, validateFilename's verdict, ioutil.ReadFile's outcome
EarlyStatus(pre) ==
    CASE pre = "method" -> 405
      [] pre = "body" -> 400
      [] pre = "forbidden" -> 403
      [] pre = "unreadable" -> 500
      [] pre = "unwritable" -> 500

\* string(contentBytes)
DocText(d) == Raw(d.v) \o d.tail

----------------------------------------------------------------------------
(* getFileContentHandler, api.go:169-214 *)

GetContentResp(d, userPath) ==
    IF userPath # <<>>
    THEN LET realPath == resolvePath(d.v, userPath)
             value == GjsonGet(d.v, realPath)
         IN  IF ~Exists(value)
             THEN [NoResp EXCEPT !.op = "get", !.status = 404,
                                 !.userPath = userPath, !.realPath = realPath]
             ELSE [NoResp EXCEPT !.op = "get", !.status = 200,
                                 !.userPath = userPath, !.realPath = realPath,
                                 !.body = ResultString(value)]
    ELSE [NoResp EXCEPT !.op = "get", !.status = 200, !.body = DocText(d)]

----------------------------------------------------------------------------
(* getTopKeysHandler, api.go:90-165 *)

\* key.Str of gjson's ForEach: the member's key in an object; in an array the
\* key is a Number result whose Str is never set
KeyStr(container, i) == IF container.t = "obj" THEN container.kids[i].k ELSE <<>>

\* the name the handler appends for child i of the drilled-into container
InnerKey(singleTopKey, container, i) ==
    IF IsTagRoot(singleTopKey) /\ IsArray(container)
    THEN LET tag == ResultString(GetKey(container.kids[i].v, <<"tag">>))
         IN  IF tag # <<>> THEN tag ELSE KeyStr(container, i)
    ELSE KeyStr(container, i)

GetTopKeysResp(d) ==
    IF ~IsObject(d.v) THEN ErrResp("keys", 400)
    ELSE LET topLevelKeys == [i \in 1..Len(d.v.kids) |-> d.v.kids[i].k]
             singleTopKey == topLevelKeys[1]
             singleTopKeyValue == GjsonGet(d.v, singleTopKey)
         IN  IF Len(topLevelKeys) = 1
                /\ (IsObject(singleTopKeyValue) \/ IsArray(singleTopKeyValue))
             THEN [NoResp EXCEPT !.op = "keys", !.status = 200,
                                 !.ctx = singleTopKey,
                                 !.keys = [i \in 1..Len(singleTopKeyValue.kids) |->
                                              InnerKey(singleTopKey, singleTopKeyValue, i)]]
             ELSE [NoResp EXCEPT !.op = "keys", !.status = 200, !.keys = topLevelKeys]

----------------------------------------------------------------------------
(* gjson.Valid and the value a valid text denotes.  A parse step returns   *)
(* [ok, i, v]: success, the position after the value, the value.           *)

Fail == [ok |-> FALSE, i |-> 0, v |-> JNone]
Ok(i, v) == [ok |-> TRUE, i |-> i, v |-> v]

RECURSIVE SkipWs(_, _)
SkipWs(t, i) == IF i <= Len(t) /\ t[i] = " " THEN SkipWs(t, i + 1) ELSE i

\* position after the run of digits that starts at i
RECURSIVE SkipDigits(_, _)
SkipDigits(t, i) == IF i <= Len(t) /\ t[i] \in Digits THEN SkipDigits(t, i + 1) ELSE i

ParseString(t, i) ==
    LET j == IndexFrom(t, "\"", i + 1)
    IN  IF j = 0 THEN Fail ELSE Ok(j + 1, JStr(SubSeq(t, i + 1, j - 1)))

\* an optional minus, then 0 or a run of digits that does not start with 0
ParseNumber(t, i) ==
    LET d == IF t[i] = "-" THEN i + 1 ELSE i
        e == IF d <= Len(t) /\ t[d] = "0" THEN d + 1 ELSE SkipDigits(t, d)
    IN  IF e = d THEN Fail ELSE Ok(e, JNum(SubSeq(t, i, e - 1)))

RECURSIVE ParseValue(_, _)
RECURSIVE ParseItems(_, _, _)
RECURSIVE ParseMembers(_, _, _)

ParseItems(t, i, acc) ==
    LET r == ParseValue(t, SkipWs(t, i))
        k == SkipWs(t, r.i)
    IN  IF ~r.ok \/ k > Len(t) THEN Fail
        ELSE IF t[k] = "," THEN ParseItems(t, k + 1, Append(acc, Item(r.v)))
        ELSE IF t[k] = "]" THEN Ok(k + 1, JArr(Append(acc, Item(r.v))))
        ELSE Fail

ParseMembers(t, i, acc) ==
    LET q == SkipWs(t, i)
        key == IF q <= Len(t) /\ t[q] = "\"" THEN ParseString(t, q) ELSE Fail
        c == SkipWs(t, key.i)
        r == IF key.ok /\ c <= Len(t) /\ t[c] = ":"
             THEN ParseValue(t, SkipWs(t, c + 1)) ELSE Fail
        k == SkipWs(t, r.i)
    IN  IF ~r.ok \/ k > Len(t) THEN Fail
        ELSE IF t[k] = "," THEN ParseMembers(t, k + 1, Append(acc, Member(key.v.s, r.v)))
        ELSE IF t[k] = "}" THEN Ok(k + 1, JObj(Append(acc, Member(key.v.s, r.v))))
        ELSE Fail

ParseValue(t, i) ==
    IF i > Len(t) THEN Fail
    ELSE CASE t[i] = "\"" -> ParseString(t, i)
           [] t[i] = "-" \/ t[i] \in Digits -> ParseNumber(t, i)
           [] t[i] = "true" -> Ok(i + 1, JTrue)
           [] t[i] = "false" -> Ok(i + 1, JFalse)
           [] t[i] = "null" -> Ok(i + 1, JNull)
           [] t[i] = "[" ->
                LET k == SkipWs(t, i + 1)
                IN  IF k <= Len(t) /\ t[k] = "]" THEN Ok(k + 1, JArr(<<>>))
                    ELSE ParseItems(t, i + 1, <<>>)
           [] t[i] = "{" ->
                LET k == SkipWs(t, i + 1)
                IN  IF k <= Len(t) /\ t[k] = "}" THEN Ok(k + 1, JObj(<<>>))
                    ELSE ParseMembers(t, i + 1, <<>>)
           [] OTHER -> Fail

\* the value at the start of a text (blanks skipped)
ParseText(t) == ParseValue(t, SkipWs(t, 1))

\* gjson.Valid: one value and nothing but blanks around it
Valid(t) ==
    LET r == ParseText(t)
    IN  r.ok /\ SkipWs(t, r.i) > Len(t)

\* gjson.ValidBytes on the bytes of a file
ValidDoc(d) == Exists(d.v) /\ SkipWs(d.tail, 1) > Len(d.tail)

----------------------------------------------------------------------------
(* sjson.SetBytes *)

Nulls(n) == [i \in 1..n |-> Item(JNull)]

\* sjson's atoui: a component of digits only (the empty component too) is numeric
Numeric(part) == IsDigits(part)

MinusOne == <<"-", "1">>

\* appendBuild: the value built for the components that do not exist yet
RECURSIVE Build(_, _)
Build(parts, nv) ==
    IF parts = <<>> THEN nv
    ELSE LET part == Head(parts)
         IN  IF Numeric(part)
             THEN JArr(Append(Nulls(TextNat(part)), Item(Build(Tail(parts), nv))))
             ELSE IF part = MinusOne
             THEN JArr(<<Item(Build(Tail(parts), nv))>>)
             ELSE JObj(<<Member(part, Build(Tail(parts), nv))>>)

\* position in v.kids that component part addresses, 0 when it addresses nothing
KidIndex(v, part) ==
    CASE v.t = "obj" -> KeyIndex(v.kids, part, 1)
      [] v.t = "arr" ->
            IF part # <<>> /\ IsDigits(part) /\ TextNat(part) < Len(v.kids)
            THEN TextNat(part) + 1 ELSE 0
      [] OTHER -> 0

\* appendRawPaths: [ok, v] with v the value after the set
RECURSIVE SetParts(_, _, _)
SetParts(v, parts, nv) ==
    LET part == Head(parts)
        rest == Tail(parts)
        at == KidIndex(v, part)
        sub == SetParts(v.kids[at].v, rest, nv)
        base == IF v.t \in {"obj", "arr"} THEN v
                ELSE IF Numeric(part) THEN JArr(<<>>) ELSE JObj(<<>>)
        built == Build(rest, nv)
    IN  IF at # 0
        THEN IF rest = <<>>
             THEN [ok |-> TRUE, v |-> [v EXCEPT !.kids[at].v = nv]]
             ELSE IF sub.ok
                  THEN [ok |-> TRUE, v |-> [v EXCEPT !.kids[at].v = sub.v]]
                  ELSE [ok |-> FALSE, v |-> v]
        ELSE IF base.t = "obj"
        THEN [ok |-> TRUE, v |-> JObj(Append(base.kids, Member(part, built)))]
        ELSE IF Numeric(part)
        THEN [ok |-> TRUE,
              v |-> JArr(base.kids
                         \o Nulls(IF TextNat(part) > Len(base.kids)
                                  THEN TextNat(part) - Len(base.kids) ELSE 0)
                         \o <<Item(built)>>)]
        ELSE IF part = MinusOne
        THEN [ok |-> TRUE, v |-> JArr(Append(base.kids, Item(built)))]
        ELSE [ok |-> FALSE, v |-> v]

\* sjson.SetBytes(bytes of d, path, value): [ok, d].  A replaced value keeps the
\* bytes around it; a value appended to the top-level container rewrites the
\* container and drops what followed it.
SjsonSet(d, path, nv) ==
    LET parts == SplitAll(path)
        r == SetParts(d.v, parts, nv)
    IN  IF path = <<>> THEN [ok |-> FALSE, d |-> d]
        ELSE [ok |-> r.ok,
              d |-> [v |-> r.v,
                     tail |-> IF KidIndex(d.v, Head(parts)) # 0 THEN d.tail ELSE <<>>]]

----------------------------------------------------------------------------
(* saveFileContentHandler, api.go:225-290 *)

MutValueToWrite(contentToSave) ==
    LET t == SkipWs(contentToSave, 1)
        e == Len(contentToSave)
    IN  IF /\ t < e
           /\ \/ contentToSave[t] = "{" /\ contentToSave[e] = "}"
              \/ contentToSave[t] = "[" /\ contentToSave[e] = "]"
           /\ Valid(contentToSave)
        THEN ParseText(contentToSave).v
        ELSE JStr(contentToSave)

\* api.go:263-267: a valid text goes in as json.RawMessage, which sjson marshals
\* (the compact encoding of its value); any other text goes in as a Go string,
\* which sjson writes as a JSON string
ValueToWrite(contentToSave) ==
    IF Valid(contentToSave) THEN ParseText(contentToSave).v ELSE JStr(contentToSave)

\* the bytes a whole-document save puts on disk, as gjson reads them: the
\* value at their start and what follows it
BytesOf(text) ==
    LET r == ParseText(text)
    IN  IF r.ok THEN [v |-> r.v, tail |-> SubSeq(text, r.i, Len(text))]
        ELSE [v |-> JNone, tail |-> text]

\* [resp, d]: the response and the bytes of the file after the request
SaveContentResult(d, userPath, contentToSave) ==
    LET realPath == resolvePath(d.v, userPath)
        set == SjsonSet(d, realPath, ValueToWrite(contentToSave))
        base == [NoResp EXCEPT !.op = "save", !.userPath = userPath,
                               !.realPath = realPath, !.value = contentToSave]
    IN  IF userPath # <<>>
        THEN IF ~set.ok THEN [resp |-> [base EXCEPT !.status = 400], d |-> d]
             ELSE IF ~ValidDoc(set.d) THEN [resp |-> [base EXCEPT !.status = 400], d |-> d]
             ELSE [resp |-> [base EXCEPT !.status = 200], d |-> set.d]
        ELSE [resp |-> [NoResp EXCEPT !.op = "save", !.status = 200, !.value = contentToSave],
              d |-> BytesOf(contentToSave)]

----------------------------------------------------------------------------
(* Strings compared as Go compares them (bytes, left to right).  Tokens    *)
(* are listed in the byte order of their first character.  The display     *)
(* names of configTypeMap are written in ASCII: rizhi is U+65E5 U+5FD7,    *)
(* shiyanxing U+5B9E U+9A8C U+6027, ruzhan U+5165 U+7AD9, chuzhan          *)
(* U+51FA U+7AD9, luyouguize U+8DEF U+7531 U+89C4 U+5219, and qita- is     *)
(* U+5176 U+4ED6 followed by "-".                                          *)

TokenOrder ==
    <<" ", "-", ".", ".json", ".txt",
      "/", "/etc/sing-box/conf", "/opt/sb", "/root/sing-box/conf", "/root/singbox/conf",
      "/usr/local/etc/sing-box/conf", "0", "1", "2", "3", "4", "5", "6", "7", "8", "9",
      "DNS", "FakeDNS", "NTP", "WARP", "a", "b", "c", "n",
      "ruzhan", "qita-", "chuzhan", "shiyanxing", "rizhi", "luyouguize">>

Rank(c) == CHOOSE i \in 1..Len(TokenOrder) : TokenOrder[i] = c

RECURSIVE TextLess(_, _)
TextLess(a, b) ==
    IF a = <<>> THEN b # <<>>
    ELSE IF b = <<>> THEN FALSE
    ELSE IF a[1] = b[1] THEN TextLess(Tail(a), Tail(b))
    ELSE Rank(a[1]) < Rank(b[1])

\* sort.Strings
RECURSIVE Insert(_, _)
Insert(x, s) ==
    IF s = <<>> THEN <<x>>
    ELSE IF TextLess(s[1], x) THEN <<s[1]>> \o Insert(x, Tail(s))
    ELSE <<x>> \o s

RECURSIVE SortStrings(_)
SortStrings(s) == IF s = <<>> THEN <<>> ELSE Insert(s[1], SortStrings(Tail(s)))

\* the orders in which the members of a finite set can come
Orders(S) ==
    {f \in [1..Cardinality(S) -> S] : \A i, j \in 1..Cardinality(S) : f[i] = f[j] => i = j}

HasSuffix(t, c) == t # <<>> /\ t[Len(t)] = c
TrimSuffix(t, c) == IF HasSuffix(t, c) THEN SubSeq(t, 1, Len(t) - 1) ELSE t

----------------------------------------------------------------------------
(* configTypeMap, part_001:21-32 *)

configTypeMap ==
    (<<"log">> :> [FunctionName |-> <<"rizhi">>, Order |-> 1])
    @@ (<<"experimental">> :> [FunctionName |-> <<"shiyanxing">>, Order |-> 2])
    @@ (<<"dns">> :> [FunctionName |-> <<"DNS">>, Order |-> 3])
    @@ (<<"inbounds">> :> [FunctionName |-> <<"ruzhan">>, Order |-> 4])
    @@ (<<"outbounds">> :> [FunctionName |-> <<"chuzhan">>, Order |-> 5])
    @@ (<<"route">> :> [FunctionName |-> <<"luyouguize">>, Order |-> 6])
    @@ (<<"ntp">> :> [FunctionName |-> <<"NTP">>, Order |-> 7])
    @@ (<<"fakedns">> :> [FunctionName |-> <<"FakeDNS">>, Order |-> 8])
    @@ (<<"warp">> :> [FunctionName |-> <<"WARP">>, Order |-> 9])

----------------------------------------------------------------------------
(* getFunctionalConfigsHandler, api.go:391-486.  A directory entry is      *)
(* [name, isDir, readable, v]: v is what gjson.ParseBytes makes of the     *)
(* file's bytes.                                                           *)

IsCandidate(e) == ~e.isDir /\ HasSuffix(e.name, ".json")

\* the ForEach of api.go:429-436: the FunctionName of the first top-level key
\* that configTypeMap holds, <<>> when there is none
RECURSIVE FirstRegistered(_, _)
FirstRegistered(kids, i) ==
    IF i > Len(kids) THEN <<>>
    ELSE IF kids[i].k \in DOMAIN configTypeMap THEN configTypeMap[kids[i].k].FunctionName
    ELSE FirstRegistered(kids, i + 1)

\* where the loop body of api.go:415-440 puts a candidate file: "skip" (the file
\* cannot be read: continue), "unmatched", or "matched"
Verdict(e) ==
    IF ~e.readable THEN "skip"
    ELSE IF ~IsObject(e.v) THEN "unmatched"
    ELSE IF FirstRegistered(e.v.kids, 1) = <<>> THEN "unmatched"
    ELSE "matched"

NamesOf(listing) == [i \in 1..Len(listing) |-> listing[i].name]

\* tempFunctionalMap[functionName] after the loop over the listing
FileListOf(listing, functionName) ==
    NamesOf(SelectSeq(listing, LAMBDA e :
        IsCandidate(e) /\ Verdict(e) = "matched"
        /\ FirstRegistered(e.v.kids, 1) = functionName))

UnmatchedOf(listing) ==
    NamesOf(SelectSeq(listing, LAMBDA e : IsCandidate(e) /\ Verdict(e) = "unmatched"))

ConfigFilesOf(listing) == NamesOf(SelectSeq(listing, IsCandidate))

ConfigTypeInfo(functionName, fileName, order) ==
    [FunctionName |-> functionName, FileName |-> fileName, Order |-> order]

\* sort.Strings(fileList), then the numbering of api.go:446-461
MutCategoryEntries(info, fileList) ==
    IF Len(fileList) = 1
    THEN <<ConfigTypeInfo(info.FunctionName, fileList[1], info.Order)>>
    ELSE [i \in 1..Len(fileList) |->
            ConfigTypeInfo(info.FunctionName \o <<" ">> \o NatText(i), fileList[i], info.Order)]

CategoryEntries(info, fileList) ==
    LET sorted == SortStrings(fileList)
    IN  IF Len(sorted) = 1
        THEN <<ConfigTypeInfo(info.FunctionName, sorted[1], info.Order)>>
        ELSE [i \in 1..Len(sorted) |->
                ConfigTypeInfo(info.FunctionName \o <<" ">> \o NatText(i), sorted[i], info.Order)]

\* the registry keys whose category collected a file; the range loop of
\* api.go:444-463 does nothing for the others
Populated(listing) ==
    {k \in DOMAIN configTypeMap : FileListOf(listing, configTypeMap[k].FunctionName) # <<>>}

\* orderedFunctionalConfig after the range loop that visits the map in mapOrder
RECURSIVE Collected(_, _, _)
Collected(listing, mapOrder, i) ==
    IF i > Len(mapOrder) THEN <<>>
    ELSE CategoryEntries(configTypeMap[mapOrder[i]],
                         FileListOf(listing, configTypeMap[mapOrder[i]].FunctionName))
         \o Collected(listing, mapOrder, i + 1)

\* a less function that compares the rank alone
MutEntryLess(x, y) == x.Order < y.Order

\* the less function of api.go:464-469
EntryLess(x, y) ==
    IF x.Order = y.Order THEN TextLess(x.FunctionName, y.FunctionName)
    ELSE x.Order < y.Order

\* sort.Slice is not stable: any arrangement that less does not contradict
SliceSorted(entries) ==
    {[i \in 1..Len(entries) |-> entries[p[i]]] :
        p \in {q \in Orders(1..Len(entries)) :
                 \A i, j \in 1..Len(entries) :
                    i < j => ~EntryLess(entries[q[j]], entries[q[i]])}}

\* api.go:470-478
UnmatchedEntries(unmatchedFiles) ==
    LET sorted == SortStrings(unmatchedFiles)
    IN  [i \in 1..Len(sorted) |->
            ConfigTypeInfo(<<"qita-">> \o TrimSuffix(sorted[i], ".json"), sorted[i],
                           Cardinality(DOMAIN configTypeMap) + 1)]

NoClassify == [status |-> 0, entries |-> <<>>, configFiles |-> <<>>]

----------------------------------------------------------------------------
(* Bounded inputs *)

MaxElems == 2       \* longest outbounds/inbounds array of an initial document
MaxPathLen == 3     \* longest request path, in tokens

\* all token sequences over alphabet of length 0..n
SeqsUpTo(alphabet, n) == UNION {[1..k -> alphabet] : k \in 0..n}

\* the tag field of an array element: absent, a string (also the decimal text
\* of an index, also empty), or a number
TagKinds == {JNone, JStr(<<"A">>), JStr(<<"1">>), JStr(<<>>), JNum(<<"1">>)}

Elem(tag) ==
    IF tag = JNone
    THEN JObj(<<Member(<<"type">>, JStr(<<"direct">>))>>)
    ELSE JObj(<<Member(<<"tag">>, tag)>>)

Elems == {Elem(tag) : tag \in TagKinds}

ArraysUpTo(n) ==
    {JArr([i \in 1..Len(f) |-> Item(f[i])]) : f \in SeqsUpTo(Elems, n)}

LogValue == JObj(<<Member(<<"level">>, JStr(<<"A">>))>>)

File(v) == [v |-> v, tail |-> <<>>]

ReadDocs ==
    {File(JObj(<<Member(<<r>>, a)>>)) : r \in {"outbounds", "inbounds"}, a \in ArraysUpTo(MaxElems)}
    \cup {File(JObj(<<Member(<<"log">>, LogValue), Member(<<"outbounds">>, a)>>)) : a \in ArraysUpTo(1)}
    \cup {File(JObj(<<Member(<<"outbounds">>, a), Member(<<"inbounds">>, a)>>)) : a \in ArraysUpTo(1)}
    \cup {File(JObj(<<Member(<<"outbounds">>, LogValue)>>)),
          File(JObj(<<Member(<<"outbounds">>, JStr(<<"A">>))>>)),
          File(JObj(<<Member(<<"log">>, LogValue)>>)),
          File(JObj(<<Member(<<"servers">>, JArr(<<Item(JNum(<<"1">>)), Item(Elem(JStr(<<"A">>)))>>))>>)),
          File(JObj(<<>>)),
          File(JArr(<<Item(Elem(JStr(<<"A">>)))>>)),
          [v |-> JObj(<<Member(<<"log">>, LogValue)>>), tail |-> <<"//c">>]}

ReadPaths ==
    SeqsUpTo({"outbounds", "inbounds", "log", "level", ".", "A", "1", "0"}, MaxPathLen)

----------------------------------------------------------------------------
(* Idle values of the parts of the state a specification does not use *)

DirIdle == dir = <<>> /\ cresp = NoClassify
LockIdle ==
    /\ fs = [systemd |-> <<>>, dirs |-> {}]
    /\ currentConfigPath = <<>>
    /\ currentConfigPathMutex = [readers |-> {}, writer |-> {}]
    /\ pc = <<>>
    /\ local = <<>>

----------------------------------------------------------------------------
(* SpecRead: the read-only handlers applied to a document on disk.  The    *)
(* handlers leave the file alone and a response depends on the file and    *)
(* the request only, so a second request reaches no state that a first     *)
(* request does not reach: one request is served per run.                  *)

InitRead ==
    /\ doc \in ReadDocs
    /\ prev = doc
    /\ resp = NoResp
    /\ DirIdle
    /\ LockIdle

\* a request that a handler answers with an error before it reads the document
\* (api.go:91-112 and 170-192)
ReadRefused ==
    \E op \in {"get", "keys"}, pre \in {"method", "forbidden", "unreadable"} :
        /\ resp.op = "none"
        /\ resp' = ErrResp(op, EarlyStatus(pre))
        /\ prev' = doc
        /\ UNCHANGED <<doc, dirVars, lockVars>>

GetContent ==
    \E userPath \in ReadPaths :
        /\ resp.op = "none"
        /\ resp' = GetContentResp(doc, userPath)
        /\ prev' = doc
        /\ UNCHANGED <<doc, dirVars, lockVars>>

GetTopKeys ==
    /\ resp.op = "none"
    /\ resp' = GetTopKeysResp(doc)
    /\ prev' = doc
    /\ UNCHANGED <<doc, dirVars, lockVars>>

NextRead == ReadRefused \/ GetContent \/ GetTopKeys

SpecRead == InitRead /\ [][NextRead]_vars

----------------------------------------------------------------------------
(* SpecSave: one save request served on a document on disk.  The handler   *)
(* keeps nothing between requests: its result depends on the bytes on disk *)
(* and the request only.                                                   *)

MaxValueLen == 2    \* every text of up to this many tokens is a value to write

ValueAlphabet == {"{", "}", "[", "]", "\"", " ", "1", "A", "//c"}

\* longer texts: fragments with a comment, with blanks, with members
LongValues ==
    {<<"{", "//c", "}">>, <<"[", "1", "//c", "]">>, <<"[", " ", "1", "]">>,
     <<"\"", "A", "\"">>, <<"[", "1", ",", "1", "]">>, <<"-", "1">>,
     <<"{", "\"", "tag", "\"", ":", "\"", "A", "\"", "}">>,
     <<"{", " ", "\"", "tag", "\"", ":", "1", "}">>,
     <<"{", "\"", "A", "\"", "}">>, <<"true">>, <<"null">>, <<" ", "A", " ">>}

SaveValues == SeqsUpTo(ValueAlphabet, MaxValueLen) \cup LongValues

OutboundsDoc(elems) ==
    File(JObj(<<Member(<<"outbounds">>, JArr([i \in 1..Len(elems) |-> Item(elems[i])]))>>))

SaveDocs ==
    {OutboundsDoc(<<Elem(JStr(<<"A">>)), Elem(JStr(<<"1">>))>>),
     OutboundsDoc(<<Elem(JStr(<<"1">>)), Elem(JStr(<<"A">>))>>),
     OutboundsDoc(<<Elem(JNone), Elem(JStr(<<"A">>))>>),
     OutboundsDoc(<<>>),
     File(JObj(<<Member(<<"log">>, LogValue)>>)),
     [v |-> JObj(<<Member(<<"log">>, LogValue)>>), tail |-> <<"//c">>],
     [v |-> JObj(<<Member(<<"log">>, LogValue)>>), tail |-> <<" ">>]}

SavePaths ==
    {<<>>, <<"outbounds">>, <<"log">>, <<"A">>,
     <<"outbounds", ".", "A">>, <<"outbounds", ".", "1">>, <<"outbounds", ".", "0">>,
     <<"outbounds", ".", "5">>, <<"outbounds", ".">>, <<"outbounds", ".", "-", "1">>,
     <<"outbounds", ".", "B">>, <<"outbounds", ".", "A", ".", "tag">>,
     <<"outbounds", ".", "0", ".", "tag">>, <<"outbounds", ".", "0", ".", "A">>,
     <<"log", ".", "level">>, <<"log", ".", "A">>, <<"log", ".", "level", ".", "A">>,
     <<"log", ".", "1">>, <<"A", ".", "1">>}

InitSave ==
    /\ doc \in SaveDocs
    /\ prev = doc
    /\ resp = NoResp
    /\ DirIdle
    /\ LockIdle

\* the request is answered with an error before the document is touched
\* (api.go:226-246, 251-255), or ioutil.WriteFile fails (api.go:282-287)
SaveRefused ==
    \E pre \in {"method", "body", "forbidden", "unreadable", "unwritable"} :
        /\ resp.op = "none"
        /\ resp' = ErrResp("save", EarlyStatus(pre))
        /\ prev' = doc
        /\ UNCHANGED <<doc, dirVars, lockVars>>

SaveContent ==
    \E userPath \in SavePaths, contentToSave \in SaveValues :
        LET r == SaveContentResult(doc, userPath, contentToSave)
        IN  /\ resp.op = "none"
            /\ resp' = r.resp
            /\ doc' = r.d
            /\ prev' = doc
            /\ UNCHANGED <<dirVars, lockVars>>

NextSave == SaveRefused \/ SaveContent

SpecSave == InitSave /\ [][NextSave]_vars

----------------------------------------------------------------------------
(* SpecClassify: get_functional_configs served on the active directory,    *)
(* whose files change between requests.                                    *)

Keyed(keys) == JObj([i \in 1..Len(keys) |-> Member(<<keys[i]>>, JObj(<<>>))])

Absent == [present |-> FALSE, isDir |-> FALSE, readable |-> FALSE, v |-> JNone]
Directory == [present |-> TRUE, isDir |-> TRUE, readable |-> FALSE, v |-> JNone]
Unreadable == [present |-> TRUE, isDir |-> FALSE, readable |-> FALSE, v |-> JNone]
Readable(v) == [present |-> TRUE, isDir |-> FALSE, readable |-> TRUE, v |-> v]

\* what a name of the directory can be: nothing, a directory, a file that cannot
\* be read, bytes that are no JSON, an array, and objects with registered and
\* unregistered top-level keys in several orders
JsonKinds ==
    {Absent, Directory, Unreadable, Readable(JNone), Readable(JArr(<<>>)),
     Readable(Keyed(<<"log">>)), Readable(Keyed(<<"foo", "log">>)),
     Readable(Keyed(<<"dns", "log">>)), Readable(Keyed(<<"foo">>))}

JsonNames == {<<"a", ".json">>, <<"b", ".json">>, <<"c", ".json">>}
OtherNames == {<<"n", ".txt">>}
OtherKinds == {Absent, Readable(Keyed(<<"log">>))}

Dirs ==
    {j @@ o : j \in [JsonNames -> JsonKinds], o \in [OtherNames -> OtherKinds]}

\* os.ReadDir: the entries that are there, in the order the listing gives them
Listings(d) ==
    LET names == {n \in DOMAIN d : d[n].present}
    IN  {[i \in 1..Len(o) |->
            [name |-> o[i], isDir |-> d[o[i]].isDir,
             readable |-> d[o[i]].readable, v |-> d[o[i]].v]] : o \in Orders(names)}

InitClassify ==
    /\ dir \in Dirs
    /\ cresp = NoClassify
    /\ doc = File(JNone) /\ prev = doc /\ resp = NoResp
    /\ LockIdle

\* the directory changes: a file is saved, removed, made unreadable, ...
FileChanges ==
    \E n \in JsonNames, k \in JsonKinds :
        /\ dir[n] # k
        /\ dir' = [dir EXCEPT ![n] = k]
        /\ cresp' = NoClassify
        /\ UNCHANGED <<docVars, lockVars>>

\* api.go:392-411: wrong method, no active directory, os.ReadDir fails
ClassifyRefused ==
    \E status \in {405, 503, 500} :
        /\ cresp' = [NoClassify EXCEPT !.status = status]
        /\ UNCHANGED <<dir, docVars, lockVars>>

GetFunctionalConfigs ==
    \E listing \in Listings(dir) :
        \E mapOrder \in Orders(Populated(listing)) :
            \E sorted \in SliceSorted(Collected(listing, mapOrder, 1)) :
                /\ cresp' = [status |-> 200,
                             entries |-> sorted \o UnmatchedEntries(UnmatchedOf(listing)),
                             configFiles |-> SortStrings(ConfigFilesOf(listing))]
                /\ UNCHANGED <<dir, docVars, lockVars>>

NextClassify == FileChanges \/ ClassifyRefused \/ GetFunctionalConfigs

SpecClassify == InitClassify /\ [][NextClassify]_vars

----------------------------------------------------------------------------
(* Claims about resolve and listKeys, checked under SpecRead *)

SetMin(S) == CHOOSE x \in S : \A y \in S : x <= y

\* positions (from 1) of the items whose tag field is the string T
StrTagAt(items, T) ==
    {i \in 1..Len(items) :
        LET g == GetKey(items[i].v, <<"tag">>) IN g.t = "str" /\ g.s = T}

\* P is r + "." + T
HasRoot(P, r) == Len(P) >= 2 /\ P[1] = r /\ P[2] = "."
Selector(P) == SubSeq(P, 3, Len(P))

\* a request that reached the resolver
Resolved == resp.op = "get" /\ resp.userPath # <<>>

\* C1: when the value of root R (outbounds or inbounds) is an array and some
\* element has tag T, resolve(D, R.T) is R.i for the smallest index i whose
\* element's tag equals T.
C1_FirstTagMatchResolves ==
    Resolved =>
        \A r \in {"outbounds", "inbounds"} :
            LET list == GetKey(doc.v, <<r>>)
                hits == StrTagAt(list.kids, Selector(resp.userPath))
            IN  (HasRoot(resp.userPath, r) /\ IsArray(list) /\ hits # {})
                    => resp.realPath = <<r, ".">> \o NatText(SetMin(hits) - 1)

\* the tag match case of a path: root outbounds/inbounds, an array value, and
\* an element whose string-valued tag is the second segment
TagMatchCase(v, P) ==
    \E r \in {"outbounds", "inbounds"} :
        /\ HasRoot(P, r)
        /\ IsArray(GetKey(v, <<r>>))
        /\ StrTagAt(GetKey(v, <<r>>).kids, Selector(P)) # {}

\* C2: resolve(D, P) returns P unchanged in every case other than a tag match;
\* an element with a missing or non-string tag never causes a translation.
C2_PassThroughUnlessTagMatch ==
    (Resolved /\ ~TagMatchCase(doc.v, resp.userPath)) => resp.realPath = resp.userPath

\* the key listKeys is to display for element e at position i (from 1)
DisplayedKey(e, i) ==
    LET g == GetKey(e, <<"tag">>)
    IN  IF g.t = "str" /\ g.s # <<>> THEN g.s ELSE NatText(i - 1)

\* C6: on a document whose single top-level key is outbounds or inbounds with an
\* array value, listKeys returns that key as contextKey and one key per element:
\* its non-empty string tag, otherwise its index in decimal; any other
\* drilled-into container yields its literal child keys.
C6_ListKeysTagOrIndex ==
    (resp.op = "keys" /\ resp.status = 200 /\ Len(doc.v.kids) = 1) =>
        LET k == doc.v.kids[1].k
            c == doc.v.kids[1].v
        IN  /\ (IsTagRoot(k) /\ IsArray(c)) =>
                    /\ resp.ctx = k
                    /\ resp.keys = [i \in 1..Len(c.kids) |-> DisplayedKey(c.kids[i].v, i)]
            /\ (IsObject(c) \/ (IsArray(c) /\ ~IsTagRoot(k))) =>
                    /\ resp.ctx = k
                    /\ resp.keys = [i \in 1..Len(c.kids) |->
                                       IF IsObject(c) THEN c.kids[i].k ELSE NatText(i - 1)]

\* C12: on a document whose single top-level key R is outbounds or inbounds
\* with an array value, resolving R + "." + (the i-th key that listKeys
\* returned) against the same document yields R + "." + i for every position i:
\* each displayed key addresses the element it was derived from.
C12_ListedKeyResolvesToItsElement ==
    (resp.op = "keys" /\ resp.status = 200 /\ Len(doc.v.kids) = 1) =>
        LET R == doc.v.kids[1].k
            c == doc.v.kids[1].v
        IN  (IsTagRoot(R) /\ IsArray(c)) =>
                \A i \in 1..Len(c.kids) :
                    resolvePath(doc.v, R \o <<".">> \o resp.keys[i])
                        = R \o <<".">> \o NatText(i - 1)

----------------------------------------------------------------------------
(* Claims about write, checked under SpecSave *)

\* strings.TrimSpace
RECURSIVE TrimRight(_)
TrimRight(t) ==
    IF t # <<>> /\ t[Len(t)] = " " THEN TrimRight(SubSeq(t, 1, Len(t) - 1)) ELSE t
Trim(t) == TrimRight(SubSeq(t, SkipWs(t, 1), Len(t)))

\* the trimmed text starts with { and ends with }, or starts with [ and ends with ]
Structured(t) ==
    LET w == Trim(t)
    IN  /\ Len(w) >= 2
        /\ \/ w[1] = "{" /\ w[Len(w)] = "}"
           \/ w[1] = "[" /\ w[Len(w)] = "]"

\* the last request was a save with a non-empty path that reached the write
Wrote == resp.op = "save" /\ resp.userPath # <<>>

\* the resolved path of the last request named a value of the document before it
ExistedBefore == Exists(GjsonGet(prev.v, resp.realPath))

\* the value at the resolved path after the request
Stored == GjsonGet(doc.v, resp.realPath)

C4_MissingPathRejected ==
    (Wrote /\ ~ExistedBefore) => (resp.status # 200 /\ doc = prev)

Denoted(text) ==
    IF ~Valid(text) THEN text
    ELSE LET v == ParseText(text).v
         IN  CASE v.t = "str"           -> v.s
               [] v.t = "null"          -> <<>>
               [] v.t \in {"obj", "arr"} -> Raw(v)
               [] OTHER                 -> Trim(text)

----------------------------------------------------------------------------
(* Claims about classify, checked under SpecClassify *)

\* the candidate files of the directory
Candidates == {n \in DOMAIN dir : dir[n].present /\ ~dir[n].isDir /\ HasSuffix(n, ".json")}

\* the registry key a file is to be filed under: the first top-level key, in
\* document order, that the registry holds; <<>> for a file that is no object
\* or holds no such key
FiledUnder(n) ==
    LET kids == dir[n].v.kids
        hits == {i \in 1..Len(kids) : kids[i].k \in DOMAIN configTypeMap}
    IN  IF dir[n].readable /\ IsObject(dir[n].v) /\ hits # {}
        THEN kids[SetMin(hits)].k
        ELSE <<>>

EntriesFor(n) == {i \in 1..Len(cresp.entries) : cresp.entries[i].FileName = n}

\* C7: every candidate file is filed exactly once: under the category of its
\* first registered top-level key, or, when it has none, cannot be parsed or is
\* no object, as the unmatched entry "qita-" + stem.
C7_EveryFileFiledOnce ==
    cresp.status = 200 =>
        /\ \A i \in 1..Len(cresp.entries) : cresp.entries[i].FileName \in Candidates
        /\ \A n \in Candidates :
              /\ Cardinality(EntriesFor(n)) = 1
              /\ \A i \in EntriesFor(n) :
                    IF FiledUnder(n) = <<>>
                    THEN cresp.entries[i].FunctionName = <<"qita-">> \o TrimSuffix(n, ".json")
                    ELSE /\ cresp.entries[i].Order = configTypeMap[FiledUnder(n)].Order
                         /\ cresp.entries[i].FunctionName[1]
                                = configTypeMap[FiledUnder(n)].FunctionName[1]

\* the files a category collects
CollectedBy(k) == {n \in Candidates : FiledUnder(n) = k}

\* C8: a category with one file is named by the bare registry name; a category
\* with k > 1 files yields the names "name N", N = 1..k, the file with the N-th
\* smallest filename getting number N.
C8_SuffixNumbering ==
    cresp.status = 200 =>
        \A k \in DOMAIN configTypeMap :
            \A n \in CollectedBy(k) :
                \A i \in EntriesFor(n) :
                    cresp.entries[i].FunctionName =
                        IF Cardinality(CollectedBy(k)) = 1
                        THEN configTypeMap[k].FunctionName
                        ELSE configTypeMap[k].FunctionName \o <<" ">>
                             \o NatText(1 + Cardinality({m \in CollectedBy(k) : TextLess(m, n)}))

\* three files of one category, listed and numbered
C8_Witness ==
    /\ cresp.status = 200
    /\ \E i \in 1..Len(cresp.entries) :
          /\ cresp.entries[i].FunctionName = <<"rizhi", " ", "3">>
          /\ cresp.entries[i].FileName = <<"c", ".json">>

IsUnmatchedEntry(x) == x.Order = Cardinality(DOMAIN configTypeMap) + 1

\* registry entries by ascending rank, ties by display name, then the unmatched
\* entries by filename
OrderedAsClaimed(es) ==
    \A i, j \in 1..Len(es) :
        i < j =>
            /\ ~(IsUnmatchedEntry(es[i]) /\ ~IsUnmatchedEntry(es[j]))
            /\ (~IsUnmatchedEntry(es[i]) /\ ~IsUnmatchedEntry(es[j])) =>
                  \/ es[i].Order < es[j].Order
                  \/ /\ es[i].Order = es[j].Order
                     /\ TextLess(es[i].FunctionName, es[j].FunctionName)
            /\ (IsUnmatchedEntry(es[i]) /\ IsUnmatchedEntry(es[j])) =>
                  TextLess(es[i].FileName, es[j].FileName)

\* C9: two runs on an unchanged set of files give the identical response,
\* whatever the listing order, the map iteration order and the unstable sort
\* do; the entries come in the claimed order.
C9_SameOutputOnSameFiles ==
    [][/\ (cresp.status = 200 /\ cresp'.status = 200 /\ dir' = dir) => cresp' = cresp
       /\ cresp'.status = 200 => OrderedAsClaimed(cresp'.entries)]_vars

\* a response with a tie in rank, a second category and an unmatched file
C9_Witness ==
    /\ cresp.status = 200
    /\ Len(cresp.entries) = 3
    /\ cresp.entries[1].Order = cresp.entries[2].Order
    /\ IsUnmatchedEntry(cresp.entries[3])

----------------------------------------------------------------------------
(* The active configuration directory and its lock: part_000:13-75,        *)
(* part_001:57-60, api.go:313-315, 348, 373-380, 396-398.  A path is a     *)
(* text whose tokens are a directory name and a trailing "/".              *)

MaxThreads == 2     \* requests served at the same time

Threads == 1..MaxThreads

DEFAULT_CONFIG_PATHS ==
    <<<<"/usr/local/etc/sing-box/conf", "/">>, <<"/etc/sing-box/conf", "/">>,
      <<"/root/singbox/conf", "/">>, <<"/root/sing-box/conf", "/">>>>

\* filepath.Clean on these paths: the trailing separators go
RECURSIVE Clean(_)
Clean(path) ==
    IF Len(path) > 1 /\ path[Len(path)] = "/" THEN Clean(SubSeq(path, 1, Len(path) - 1))
    ELSE path

\* isValidConfigDir: the path names a directory that is there and can be listed
isValidConfigDir(f, path) == Clean(path) \in f.dirs

\* initConfigPaths up to its step 3: initialActivePath
InitialActivePath(f) ==
    LET systemdDefaultPath ==
            IF f.systemd # <<>> /\ isValidConfigDir(f, f.systemd) THEN f.systemd ELSE <<>>
        defaults == SelectSeq(DEFAULT_CONFIG_PATHS,
                              LAMBDA p : isValidConfigDir(f, p) /\ p # systemdDefaultPath)
        foundPaths == SortStrings((IF systemdDefaultPath # <<>>
                                   THEN <<systemdDefaultPath>> ELSE <<>>) \o defaults)
    IN  IF systemdDefaultPath # <<>> THEN systemdDefaultPath
        ELSE IF Len(foundPaths) > 0 THEN foundPaths[1]
        ELSE <<>>

\* the hosts considered: what detectSystemdConfigPath finds, and the directories
HostDirs == {<<"/etc/sing-box/conf">>, <<"/root/singbox/conf">>, <<"/opt/sb">>}
Hosts == [systemd : {<<>>, <<"/opt/sb">>, <<"/etc/sing-box/conf">>}, dirs : SUBSET HostDirs]

\* the paths a set_active_config_path request names
RequestPaths == HostDirs \cup {<<"/root/singbox/conf", "/">>, <<"/nope">>}

Free == [readers |-> {}, writer |-> {}]

\* the state when the server starts to listen: main has run initConfigPaths
Init ==
    /\ fs \in Hosts
    /\ currentConfigPath = InitialActivePath(fs)
    /\ currentConfigPathMutex = Free
    /\ pc = [t \in Threads |-> "idle"]
    /\ local = [t \in Threads |-> <<>>]
    /\ doc = File(JNone) /\ prev = doc /\ resp = NoResp
    /\ DirIdle

Goto(t, label) == pc' = [pc EXCEPT ![t] = label]

\* sync.RWMutex
Lock(t) ==
    /\ currentConfigPathMutex = Free
    /\ currentConfigPathMutex' = [currentConfigPathMutex EXCEPT !.writer = {t}]
Unlock(t) ==
    currentConfigPathMutex' = [currentConfigPathMutex EXCEPT !.writer = @ \ {t}]
RLock(t) ==
    /\ currentConfigPathMutex.writer = {}
    /\ currentConfigPathMutex' = [currentConfigPathMutex EXCEPT !.readers = @ \cup {t}]
RUnlock(t) ==
    currentConfigPathMutex' = [currentConfigPathMutex EXCEPT !.readers = @ \ {t}]

\* setActiveConfigPathHandler, api.go:362-382
SetStart(t) ==
    \E reqPath \in RequestPaths :
        /\ pc[t] = "idle"
        /\ isValidConfigDir(fs, Clean(reqPath))
        /\ local' = [local EXCEPT ![t] = Clean(reqPath)]
        /\ Goto(t, "set_lock")
        /\ UNCHANGED <<fs, currentConfigPath, currentConfigPathMutex, docVars, dirVars>>
SetLock(t) ==
    /\ pc[t] = "set_lock" /\ Lock(t) /\ Goto(t, "set_write")
    /\ UNCHANGED <<fs, currentConfigPath, local, docVars, dirVars>>
SetWrite(t) ==
    /\ pc[t] = "set_write"
    /\ currentConfigPath' = local[t]
    /\ Goto(t, "set_unlock")
    /\ UNCHANGED <<fs, currentConfigPathMutex, local, docVars, dirVars>>
SetUnlock(t) ==
    /\ pc[t] = "set_unlock" /\ Unlock(t) /\ Goto(t, "idle")
    /\ UNCHANGED <<fs, currentConfigPath, local, docVars, dirVars>>

\* getConfigPathsHandler, api.go:343-356, runs initConfigPaths, part_000:28-75
InitStart(t) ==
    /\ pc[t] = "idle"
    /\ local' = [local EXCEPT ![t] = InitialActivePath(fs)]
    /\ Goto(t, "init_lock")
    /\ UNCHANGED <<fs, currentConfigPath, currentConfigPathMutex, docVars, dirVars>>
InitLock(t) ==
    /\ pc[t] = "init_lock" /\ Lock(t) /\ Goto(t, "init_write")
    /\ UNCHANGED <<fs, currentConfigPath, local, docVars, dirVars>>
InitWrite(t) ==
    /\ pc[t] = "init_write"
    /\ currentConfigPath' = local[t]
    /\ Goto(t, "init_unlock")
    /\ UNCHANGED <<fs, currentConfigPathMutex, local, docVars, dirVars>>
InitUnlock(t) ==
    /\ pc[t] = "init_unlock" /\ Unlock(t) /\ Goto(t, "init_log")
    /\ UNCHANGED <<fs, currentConfigPath, local, docVars, dirVars>>
\* part_000:73: log.Printf reads currentConfigPath after the Unlock; the value
\* only goes to the log
InitLog(t) ==
    /\ pc[t] = "init_log" /\ Goto(t, "idle")
    /\ UNCHANGED <<fs, currentConfigPath, currentConfigPathMutex, local, docVars, dirVars>>

\* validateFilename (part_001:57-60), checkConfigHandler (api.go:313-315) and
\* getFunctionalConfigsHandler (api.go:396-398): RLock, copy, RUnlock
ReadStart(t) ==
    /\ pc[t] = "idle" /\ Goto(t, "rd_rlock")
    /\ UNCHANGED <<fs, currentConfigPath, currentConfigPathMutex, local, docVars, dirVars>>
ReadRLock(t) ==
    /\ pc[t] = "rd_rlock" /\ RLock(t) /\ Goto(t, "rd_read")
    /\ UNCHANGED <<fs, currentConfigPath, local, docVars, dirVars>>
ReadCopy(t) ==
    /\ pc[t] = "rd_read"
    /\ local' = [local EXCEPT ![t] = currentConfigPath]
    /\ Goto(t, "rd_runlock")
    /\ UNCHANGED <<fs, currentConfigPath, currentConfigPathMutex, docVars, dirVars>>
ReadRUnlock(t) ==
    /\ pc[t] = "rd_runlock" /\ RUnlock(t) /\ Goto(t, "idle")
    /\ UNCHANGED <<fs, currentConfigPath, local, docVars, dirVars>>

Next ==
    \E t \in Threads :
        \/ SetStart(t) \/ SetLock(t) \/ SetWrite(t) \/ SetUnlock(t)
        \/ InitStart(t) \/ InitLock(t) \/ InitWrite(t) \/ InitUnlock(t) \/ InitLog(t)
        \/ ReadStart(t) \/ ReadRLock(t) \/ ReadCopy(t) \/ ReadRUnlock(t)

Spec == Init /\ [][Next]_vars

----------------------------------------------------------------------------
(* Claims about the lock, checked under Spec *)

\* thread t is about to read / to write currentConfigPath
Reads(t) == pc[t] \in {"rd_read", "init_log"}
Writes(t) == pc[t] \in {"set_write", "init_write"}
HoldsRead(t) == t \in currentConfigPathMutex.readers \/ t \in currentConfigPathMutex.writer
HoldsWrite(t) == t \in currentConfigPathMutex.writer

\* C10: every read of currentConfigPath happens with the lock held at least in
\* read mode and every write with it held in write mode; no interleaving
\* reaches a state where a thread reads or writes the variable without the lock
\* while another thread writes it.
C10_NoUnlockedAccessDuringWrite ==
    \A t, u \in Threads :
        (t # u /\ Writes(u)) =>
            /\ HoldsWrite(u)
            /\ Reads(t) => HoldsRead(t)
            /\ Writes(t) => HoldsWrite(t)

\* C11: after startup the active configuration directory changes only through
\* a successful set-active-path request; every read-only request, get_config_paths
\* among them, leaves it as it was, so a directory that was set stays in use.
C11_OnlySetChangesActivePath ==
    [][currentConfigPath' # currentConfigPath =>
          \E t \in Threads : pc[t] = "set_write" /\ pc'[t] = "set_unlock"]_vars

====
